---------------------------- MODULE Spec2Model ----------------------------
(***************************************************************************)
(* A state-machine model of the checkers game in src/script.js.            *)
(*                                                                         *)
(* The program keeps one global object `state`; every function of the      *)
(* source reads and writes it.  Here each function is an operator that     *)
(* takes the state record s it reads and returns the state record it       *)
(* leaves, so that a handler is the composition of the calls it makes and  *)
(* a click script can be replayed from resetGame.  The variables hold the  *)
(* fields of `state` between two events.                                   *)
(***************************************************************************)
EXTENDS Integers, Sequences, FiniteSets, TLC

VARIABLES
  board,      \* state.board: board[r][c] is the cell's piece, NoPiece for null
  selected,   \* state.selected: <<r, c>> or Null
  turn,       \* state.turn
  advanced,   \* state.advanced
  chainFrom,  \* state.chainFrom: <<r, c>> or Null
  score,      \* state.score: [red |-> n, black |-> n]
  aria,       \* what the last handler put in state.ariaEl.textContent, "" if nothing
  logged,     \* the entries the last handler prepended to state.logEl
  hist,       \* history of the turn, see NoHistory
  nMoves      \* accepted moves since the initial state or the last reset

vars == <<board, selected, turn, advanced, chainFrom, score, aria, logged,
          hist, nMoves>>

---------------------------------------------------------------------------
(* Constants & state                                                       *)

SIZE == 8
RED == "red"
BLACK == "black"

\* Accepted moves explored from each initial state.
MaxMoves == 1

Null == <<>>
NoPiece == [color |-> "none", king |-> FALSE]
Coords == 0 .. (SIZE - 1)
Colors == {RED, BLACK}

\* The texts handed to log() and announce(), without their markup and
\* without the coordinates a move's log entry carries.
MsgNewGame == "New game. Red to move."
MsgReady == "Ready. Click a piece to move."
MsgMustContinue == "Must continue capture with the same piece."
MsgForced == "Capture available - you must take it."
MsgMoved == "moved"
MsgCaptured == "captured"
MsgAnother == "Another capture is available. Continue with the same piece."
MsgMoveComplete == "Move complete."
MsgIllegal == "Illegal move."
MsgRedWins == "Red wins!"
MsgBlackWins == "Black wins!"
MsgMode == "Mode"
MsgTests == "Tests"

within(r, c) == r >= 0 /\ r < SIZE /\ c >= 0 /\ c < SIZE

log(s, msg) == [s EXCEPT !.logged = Append(@, msg)]
announce(s, t) == [s EXCEPT !.aria = t]

\* The state a handler starts from: nothing logged or announced by it yet.
\* (The log grows without bound and the announcement stays until the next
\* one; the model keeps of both what the last handler added.)
Entering(s) == [s EXCEPT !.logged = <<>>, !.aria = ""]

---------------------------------------------------------------------------
(* Setup                                                                   *)

makeEmptyBoard == [r \in Coords |-> [c \in Coords |-> NoPiece]]

\* Mutant: Black gets two rows only.
setupPieces_TwoRows(b) ==
  [r \in Coords |-> [c \in Coords |->
     IF (r + c) % 2 # 1 THEN b[r][c]
     ELSE IF r >= 5 THEN [color |-> RED, king |-> FALSE]
     ELSE IF r < 2 THEN [color |-> BLACK, king |-> FALSE]
     ELSE b[r][c]]]

setupPieces(b) ==
  [r \in Coords |-> [c \in Coords |->
     IF (r + c) % 2 # 1 THEN b[r][c]
     ELSE IF r >= 5 THEN [color |-> RED, king |-> FALSE]
     ELSE IF r <= 2 THEN [color |-> BLACK, king |-> FALSE]
     ELSE b[r][c]]]

resetGame(s) ==
  LET s1 == [s EXCEPT !.board = setupPieces(makeEmptyBoard),
                      !.selected = Null, !.chainFrom = Null, !.turn = RED,
                      !.score = [red |-> 0, black |-> 0]]
  IN announce(log(s1, MsgNewGame), MsgNewGame)

---------------------------------------------------------------------------
(* Rules                                                                   *)

\* Mutant: the first direction goes straight up or down the column.
forwardDirs_Straight(color) ==
  IF color = RED THEN << <<-1, 0>>, <<-1, 1>> >> ELSE << <<1, 0>>, <<1, 1>> >>

forwardDirs(color) ==
  IF color = RED THEN << <<-1, -1>>, <<-1, 1>> >> ELSE << <<1, -1>>, <<1, 1>> >>

kingDirs == << <<-1, -1>>, <<-1, 1>>, <<1, -1>>, <<1, 1>> >>

\* Mutant: every piece moves like a king.
dirsOf_AllWays(piece) == kingDirs

dirsOf(piece) == IF piece.king THEN kingDirs ELSE forwardDirs(piece.color)

legalSteps(s, r, c) ==
  LET sq == s.board[r][c] IN
  IF sq = NoPiece THEN <<>>
  ELSE LET dirs == dirsOf(sq)
           cand == [i \in 1 .. Len(dirs) |-> <<r + dirs[i][1], c + dirs[i][2]>>]
           ok(t) == within(t[1], t[2]) /\ s.board[t[1]][t[2]] = NoPiece
       IN SelectSeq(cand, ok)

captureMoves(s, r, c) ==
  LET sq == s.board[r][c] IN
  IF sq = NoPiece THEN <<>>
  ELSE LET dirs == dirsOf(sq)
           cand == [i \in 1 .. Len(dirs) |->
                      <<r + 2 * dirs[i][1], c + 2 * dirs[i][2],
                        r + dirs[i][1], c + dirs[i][2]>>]
           ok(t) == /\ within(t[1], t[2]) /\ within(t[3], t[4])
                    /\ s.board[t[3]][t[4]] # NoPiece
                    /\ s.board[t[3]][t[4]].color # sq.color
                    /\ s.board[t[1]][t[2]] = NoPiece
       IN SelectSeq(cand, ok)

anyCaptureAvailable(s, color) ==
  \E r \in Coords, c \in Coords :
     /\ s.board[r][c] # NoPiece
     /\ s.board[r][c].color = color
     /\ Len(captureMoves(s, r, c)) > 0

\* Mutant: only Red is crowned.
maybeKinging_RedOnly(s, r, piece) ==
  IF ~s.advanced \/ piece.king THEN piece
  ELSE IF piece.color = RED /\ r = 0 THEN [piece EXCEPT !.king = TRUE]
  ELSE piece

\* Mutant: the mode is not looked at.
maybeKinging_AnyMode(s, r, piece) ==
  IF piece.king THEN piece
  ELSE IF piece.color = RED /\ r = 0 THEN [piece EXCEPT !.king = TRUE]
  ELSE IF piece.color = BLACK /\ r = SIZE - 1 THEN [piece EXCEPT !.king = TRUE]
  ELSE piece

maybeKinging(s, r, piece) ==
  IF ~s.advanced \/ piece.king THEN piece
  ELSE IF piece.color = RED /\ r = 0 THEN [piece EXCEPT !.king = TRUE]
  ELSE IF piece.color = BLACK /\ r = SIZE - 1 THEN [piece EXCEPT !.king = TRUE]
  ELSE piece

movePiece(s, from, to) ==
  LET moving == s.board[from[1]][from[2]]
      s1 == [s EXCEPT !.board[from[1]][from[2]] = NoPiece]
  IN [s1 EXCEPT !.board[to[1]][to[2]] = maybeKinging(s, to[1], moving)]

\* Mutant: captures are never forced.
computeTargetsForSelection_NoForce(s, sr, sc) ==
  IF s.board[sr][sc] = NoPiece THEN [steps |-> <<>>, caps |-> <<>>]
  ELSE [steps |-> legalSteps(s, sr, sc), caps |-> captureMoves(s, sr, sc)]

computeTargetsForSelection(s, sr, sc) ==
  LET piece == s.board[sr][sc] IN
  IF piece = NoPiece THEN [steps |-> <<>>, caps |-> <<>>]
  ELSE LET mustCapture == s.advanced /\ s.chainFrom = Null
                          /\ anyCaptureAvailable(s, s.turn)
           caps == captureMoves(s, sr, sc)
       IN IF s.advanced /\ (s.chainFrom # Null \/ mustCapture)
          THEN [steps |-> <<>>, caps |-> caps]
          ELSE [steps |-> legalSteps(s, sr, sc), caps |-> caps]

\* Mutant: the cell is left as it is.
removePiece_Keep(s, r, c) == s

removePiece(s, r, c) == [s EXCEPT !.board[r][c] = NoPiece]

\* Mutant: the turn is not passed on.
endTurn_NoPass(s) ==
  announce([s EXCEPT !.selected = Null, !.chainFrom = Null], MsgMoveComplete)

endTurn(s) ==
  announce([s EXCEPT !.selected = Null, !.chainFrom = Null,
                     !.turn = IF s.turn = RED THEN BLACK ELSE RED],
           MsgMoveComplete)

---------------------------------------------------------------------------
(* Scoring / game over                                                     *)

countPieces(s, color) ==
  Cardinality({p \in Coords \X Coords :
                 s.board[p[1]][p[2]] # NoPiece /\ s.board[p[1]][p[2]].color = color})

\* Mutant: the winner is the color that has no piece left.
checkGameOver_Loser(s) ==
  LET redRemain == countPieces(s, RED)
      blackRemain == countPieces(s, BLACK)
  IN IF redRemain = 0 \/ blackRemain = 0
     THEN LET winner == IF redRemain > 0 THEN MsgBlackWins ELSE MsgRedWins
          IN announce(log(s, winner), winner)
     ELSE s

checkGameOver(s) ==
  LET redRemain == countPieces(s, RED)
      blackRemain == countPieces(s, BLACK)
  IN IF redRemain = 0 \/ blackRemain = 0
     THEN LET winner == IF redRemain > 0 THEN MsgRedWins ELSE MsgBlackWins
          IN announce(log(s, winner), winner)
     ELSE s

---------------------------------------------------------------------------
(* Interaction                                                             *)

\* caps.findIndex(([rr,cc]) => rr===r && cc===c), 1-based; 0 for -1.
findIndex(caps, r, c) ==
  LET hits == {i \in 1 .. Len(caps) : caps[i][1] = r /\ caps[i][2] = c}
  IN IF hits = {} THEN 0 ELSE CHOOSE i \in hits : \A j \in hits : i <= j

\* The select branch: a click on a piece of the color to move.
selectPiece(s, r, c) ==
  IF s.chainFrom # Null /\ (s.chainFrom[1] # r \/ s.chainFrom[2] # c)
  THEN announce(log(s, MsgMustContinue), MsgMustContinue)
  ELSE [s EXCEPT !.selected = <<r, c>>]

\* Mutant: the selection outlives the turn.
applyStep_KeepsSelection(s, r, c) ==
  IF s.advanced /\ (s.chainFrom # Null \/ anyCaptureAvailable(s, s.turn))
  THEN announce(log(s, MsgForced), MsgForced)
  ELSE [endTurn(log(movePiece(s, s.selected, <<r, c>>), MsgMoved))
          EXCEPT !.selected = <<r, c>>]

\* The step branch: (r, c) is one of the computed steps of the selection.
applyStep(s, r, c) ==
  IF s.advanced /\ (s.chainFrom # Null \/ anyCaptureAvailable(s, s.turn))
  THEN announce(log(s, MsgForced), MsgForced)
  ELSE endTurn(log(movePiece(s, s.selected, <<r, c>>), MsgMoved))

\* Mutant: the chain goes on in simple mode too.
chainContinues_AnyMode(s, more) == Len(more) > 0

\* Whether the capturing piece must go on: more = captureMoves at its landing.
chainContinues(s, more) == s.advanced /\ Len(more) > 0

\* Mutant: every capture goes on Red's score.
applyCapture_ScoresRed(s, cap) ==
  LET tr == cap[1]
      tc == cap[2]
      s1 == removePiece(movePiece(s, s.selected, <<tr, tc>>), cap[3], cap[4])
      s2 == [s1 EXCEPT !.score.red = @ + 1]
      s3 == [log(s2, MsgCaptured) EXCEPT !.selected = <<tr, tc>>,
                                         !.chainFrom = <<tr, tc>>]
      more == captureMoves(s3, tr, tc)
      s4 == checkGameOver(s3)
  IN IF chainContinues(s4, more)
     THEN announce(s4, MsgAnother)
     ELSE endTurn(s4)

\* The capture branch: cap = <<tr, tc, mr, mc>> is the computed capture
\* that lands on the clicked cell.
applyCapture(s, cap) ==
  LET tr == cap[1]
      tc == cap[2]
      s1 == removePiece(movePiece(s, s.selected, <<tr, tc>>), cap[3], cap[4])
      s2 == IF s.turn = RED
            THEN [s1 EXCEPT !.score.red = @ + 1]
            ELSE [s1 EXCEPT !.score.black = @ + 1]
      s3 == [log(s2, MsgCaptured) EXCEPT !.selected = <<tr, tc>>,
                                         !.chainFrom = <<tr, tc>>]
      more == captureMoves(s3, tr, tc)
      s4 == checkGameOver(s3)
  IN IF chainContinues(s4, more)
     THEN announce(s4, MsgAnother)
     ELSE endTurn(s4)

\* Mutant: the move branch takes the piece's steps and captures as they are.
clickTargets_Unforced(s) ==
  [steps |-> legalSteps(s, s.selected[1], s.selected[2]),
   caps |-> captureMoves(s, s.selected[1], s.selected[2])]

\* The steps and captures the move branch computes for the selection.
clickTargets(s) == computeTargetsForSelection(s, s.selected[1], s.selected[2])

\* Mutant: a piece of either color can be selected.
onSquareClick_AnyColor(s, r, c) ==
  LET cell == s.board[r][c] IN
  IF cell # NoPiece
  THEN selectPiece(s, r, c)
  ELSE IF s.selected # Null /\ cell = NoPiece
  THEN LET t == clickTargets(s)
           isStep == \E i \in 1 .. Len(t.steps) : t.steps[i] = <<r, c>>
           capIndex == findIndex(t.caps, r, c)
       IN IF isStep THEN applyStep(s, r, c)
          ELSE IF capIndex # 0 THEN applyCapture(s, t.caps[capIndex])
          ELSE announce(log(s, MsgIllegal), MsgIllegal)
  ELSE s

onSquareClick(s, r, c) ==
  LET cell == s.board[r][c] IN
  IF cell # NoPiece /\ cell.color = s.turn
  THEN selectPiece(s, r, c)
  ELSE IF s.selected # Null /\ cell = NoPiece
  THEN LET t == clickTargets(s)
           isStep == \E i \in 1 .. Len(t.steps) : t.steps[i] = <<r, c>>
           capIndex == findIndex(t.caps, r, c)
       IN IF isStep THEN applyStep(s, r, c)
          ELSE IF capIndex # 0 THEN applyCapture(s, t.caps[capIndex])
          ELSE announce(log(s, MsgIllegal), MsgIllegal)
  ELSE s

\* Mutant: the chain in progress is kept.
toggleCaptures_KeepChain(s) ==
  log([s EXCEPT !.advanced = ~s.advanced], MsgMode)

\* The toggleCapturesBtn click handler.
toggleCaptures(s) ==
  log([s EXCEPT !.advanced = ~s.advanced, !.chainFrom = Null], MsgMode)

\* runTests: resetGame, the assertions on scratch boards, then the restore
\* of board, turn, advanced, chainFrom and score (not of selected).
runTests(s) ==
  LET s1 == resetGame(s)
  IN log([s1 EXCEPT !.board = s.board, !.turn = s.turn, !.advanced = s.advanced,
                    !.chainFrom = s.chainFrom, !.score = s.score], MsgTests)

\* The DOMContentLoaded handler, from the declared initial value of `state`.
StateDecl ==
  [board |-> makeEmptyBoard, selected |-> Null, turn |-> RED, advanced |-> FALSE,
   chainFrom |-> Null, score |-> [red |-> 0, black |-> 0],
   aria |-> "", logged |-> <<>>]

Loaded == log(resetGame(StateDecl), MsgReady)

---------------------------------------------------------------------------
(* History of the turn, kept beside the program's state.                   *)
(*   turnMoves: the accepted moves of the turn in progress, or of the turn *)
(*              that just ended while the next one has not moved yet; of   *)
(*              each its kind, origin and destination, the piece that left *)
(*              the origin and the piece put on the destination;           *)
(*   turnDone:  the turn recorded in turnMoves has passed;                 *)
(*   chainCut:  the mode button was clicked after a move of turnMoves and  *)
(*              before the turn passed.                                    *)

NoHistory == [turnMoves |-> <<>>, turnDone |-> TRUE, chainCut |-> FALSE]

\* s is the state a click on (r, c) started from, n the state it left.
trackClick(h, s, n, r, c) ==
  IF n.board = s.board THEN h
  ELSE [turnMoves |->
          Append(IF h.turnDone THEN <<>> ELSE h.turnMoves,
                 [kind |-> IF n.score # s.score THEN "capture" ELSE "step",
                  from |-> s.selected, to |-> <<r, c>>,
                  piece |-> s.board[s.selected[1]][s.selected[2]],
                  placed |-> n.board[r][c]]),
        turnDone |-> n.turn # s.turn,
        chainCut |-> IF h.turnDone THEN FALSE ELSE h.chainCut]

trackToggle(h) ==
  [h EXCEPT !.chainCut = @ \/ (~h.turnDone /\ h.turnMoves # <<>>)]

---------------------------------------------------------------------------
(* A recorded game.  Script is a sequence of clicked squares which, played *)
(* from the loaded page after one click on the mode button (advanced       *)
(* mode), is a complete game: clicks 2k-1 and 2k select a piece and move   *)
(* it, and the last click captures Red's last piece.  The game is explored *)
(* from the loaded page and from the states this game is in after SeedCuts *)
(* clicks, each computed by the handlers themselves.                       *)

Script ==
  <<
     <<5, 2>>, <<4, 3>>, <<2, 1>>, <<3, 0>>, <<5, 6>>, <<4, 7>>, <<2, 5>>, <<3, 4>>,
     <<4, 3>>, <<2, 5>>, <<1, 4>>, <<3, 6>>, <<4, 7>>, <<2, 5>>, <<1, 6>>, <<3, 4>>,
     <<5, 4>>, <<4, 5>>, <<3, 4>>, <<5, 6>>, <<6, 5>>, <<4, 7>>, <<3, 0>>, <<4, 1>>,
     <<5, 0>>, <<3, 2>>, <<3, 2>>, <<1, 4>>, <<0, 3>>, <<2, 5>>, <<4, 7>>, <<3, 6>>,
     <<2, 5>>, <<4, 7>>, <<6, 7>>, <<5, 6>>, <<4, 7>>, <<6, 5>>, <<7, 6>>, <<5, 4>>,
     <<1, 0>>, <<2, 1>>, <<6, 3>>, <<5, 2>>, <<2, 1>>, <<3, 0>>, <<7, 2>>, <<6, 3>>,
     <<3, 0>>, <<4, 1>>, <<5, 2>>, <<3, 0>>, <<1, 2>>, <<2, 1>>, <<3, 0>>, <<1, 2>>,
     <<0, 1>>, <<2, 3>>, <<7, 4>>, <<6, 5>>, <<0, 5>>, <<1, 4>>, <<5, 4>>, <<4, 3>>,
     <<2, 3>>, <<3, 4>>, <<4, 3>>, <<2, 5>>, <<2, 5>>, <<0, 3>>, <<2, 7>>, <<3, 6>>,
     <<0, 3>>, <<1, 4>>, <<0, 7>>, <<1, 6>>, <<1, 4>>, <<2, 5>>, <<1, 6>>, <<3, 4>>,
     <<6, 1>>, <<5, 2>>, <<3, 6>>, <<4, 7>>, <<5, 2>>, <<4, 3>>, <<3, 4>>, <<5, 2>>,
     <<5, 2>>, <<7, 4>>, <<7, 4>>, <<5, 6>>, <<7, 0>>, <<6, 1>>, <<5, 6>>, <<6, 5>>,
     <<6, 1>>, <<5, 2>>, <<6, 5>>, <<5, 4>>, <<5, 2>>, <<4, 1>>, <<5, 4>>, <<4, 5>>,
     <<4, 1>>, <<3, 0>>, <<4, 7>>, <<5, 6>>, <<3, 0>>, <<2, 1>>, <<4, 5>>, <<5, 4>>,
     <<2, 1>>, <<1, 2>>, <<5, 6>>, <<6, 7>>, <<1, 2>>, <<0, 3>>, <<5, 4>>, <<6, 3>>,
     <<0, 3>>, <<1, 2>>, <<6, 3>>, <<7, 2>>, <<1, 2>>, <<0, 3>>, <<7, 2>>, <<6, 3>>,
     <<0, 3>>, <<1, 4>>, <<6, 7>>, <<7, 6>>, <<1, 4>>, <<2, 5>>, <<7, 6>>, <<6, 7>>,
     <<2, 5>>, <<3, 4>>, <<6, 3>>, <<7, 4>>, <<3, 4>>, <<2, 5>>, <<6, 7>>, <<7, 6>>,
     <<2, 5>>, <<3, 4>>, <<7, 4>>, <<6, 5>>, <<3, 4>>, <<2, 3>>, <<6, 5>>, <<7, 4>>,
     <<2, 3>>, <<1, 4>>, <<7, 6>>, <<6, 7>>, <<1, 4>>, <<2, 3>>, <<7, 4>>, <<6, 3>>,
     <<2, 3>>, <<1, 2>>, <<6, 3>>, <<7, 2>>, <<1, 2>>, <<0, 3>>, <<7, 2>>, <<6, 1>>,
     <<0, 3>>, <<1, 4>>, <<6, 1>>, <<7, 2>>, <<1, 4>>, <<0, 5>>, <<7, 2>>, <<6, 1>>,
     <<0, 5>>, <<1, 4>>, <<6, 1>>, <<5, 0>>, <<1, 4>>, <<2, 5>>, <<5, 0>>, <<6, 1>>,
     <<2, 5>>, <<1, 6>>, <<6, 7>>, <<5, 6>>, <<1, 6>>, <<2, 5>>, <<5, 6>>, <<4, 7>>,
     <<2, 5>>, <<3, 4>>, <<6, 1>>, <<5, 0>>, <<3, 4>>, <<2, 3>>, <<4, 7>>, <<5, 6>>,
     <<2, 3>>, <<3, 2>>, <<5, 6>>, <<6, 7>>, <<3, 2>>, <<2, 3>>, <<5, 0>>, <<4, 1>>,
     <<2, 3>>, <<1, 2>>, <<6, 7>>, <<7, 6>>, <<1, 2>>, <<0, 3>>, <<4, 1>>, <<3, 0>>,
     <<0, 3>>, <<1, 2>>, <<7, 6>>, <<6, 5>>, <<1, 2>>, <<0, 1>>, <<6, 5>>, <<7, 4>>,
     <<0, 1>>, <<1, 0>>, <<3, 0>>, <<4, 1>>, <<1, 0>>, <<2, 1>>, <<4, 1>>, <<3, 2>>,
     <<2, 1>>, <<4, 3>>, <<7, 4>>, <<6, 3>>, <<4, 3>>, <<3, 2>>, <<6, 3>>, <<7, 2>>,
     <<3, 2>>, <<4, 1>>, <<7, 2>>, <<6, 1>>, <<4, 1>>, <<5, 2>>, <<6, 1>>, <<4, 3>> >>

\* 24: Red's first double jump, 18 pieces on the board.
\* 86: before Black's triple jump; 88: in it, before the jump that crowns
\* on row 7 and goes on backward.  116, 130: before Red's and Black's step
\* onto the far row.  246: before the last capture; 248: the game is over.
SeedCuts == {24, 86, 88, 116, 130, 246, 248}

\* (The singleton sets here and below make TLC compute a state once,
\* before it is used.)
playClick(x, p) ==
  CHOOSE y \in {[s |-> n, h |-> trackClick(x.h, x.s, n, p[1], p[2])] :
                  n \in {onSquareClick(Entering(x.s), p[1], p[2])}} : TRUE

\* x after clicks i .. j of Script.
RECURSIVE playRange(_, _, _)
playRange(x, i, j) ==
  IF i > j THEN x
  ELSE IF i = j THEN playClick(x, Script[i])
  ELSE CHOOSE z \in {playRange(y, (i + j) \div 2 + 1, j) :
                       y \in {playRange(x, i, (i + j) \div 2)}} : TRUE

\* The state and history after the first k clicks of Script.
Played(k) ==
  playRange([s |-> toggleCaptures(Entering(Loaded)), h |-> NoHistory], 1, k)

Seeds == {[s |-> Loaded, h |-> NoHistory]} \cup {Played(k) : k \in SeedCuts}

---------------------------------------------------------------------------
(* The state machine                                                       *)

St ==
  [board |-> board, selected |-> selected, turn |-> turn, advanced |-> advanced,
   chainFrom |-> chainFrom, score |-> score, aria |-> aria, logged |-> logged]

Install(n) ==
  /\ board' = n.board
  /\ selected' = n.selected
  /\ turn' = n.turn
  /\ advanced' = n.advanced
  /\ chainFrom' = n.chainFrom
  /\ score' = n.score
  /\ aria' = n.aria
  /\ logged' = n.logged

Init ==
  \E x \in Seeds :
    /\ board = x.s.board
    /\ selected = x.s.selected
    /\ turn = x.s.turn
    /\ advanced = x.s.advanced
    /\ chainFrom = x.s.chainFrom
    /\ score = x.s.score
    /\ aria = x.s.aria
    /\ logged = x.s.logged
    /\ hist = x.h
    /\ nMoves = 0

\* A click on square (r, c).
Click(r, c) ==
  \E s \in {Entering(St)} : \E n \in {onSquareClick(s, r, c)} :
    /\ n.board # board => nMoves < MaxMoves
    /\ Install(n)
    /\ hist' = trackClick(hist, s, n, r, c)
    /\ nMoves' = IF n.board # board THEN nMoves + 1 ELSE nMoves

\* A click on the mode button.
Toggle ==
  /\ Install(toggleCaptures(Entering(St)))
  /\ hist' = trackToggle(hist)
  /\ UNCHANGED nMoves

\* A click on New Game.
Reset ==
  /\ Install(resetGame(Entering(St)))
  /\ hist' = NoHistory
  /\ nMoves' = 0

\* A click on Run Tests.
RunTests ==
  /\ Install(runTests(Entering(St)))
  /\ UNCHANGED <<hist, nMoves>>

Next ==
  \/ \E r \in Coords, c \in Coords : Click(r, c)
  \/ Toggle
  \/ Reset
  \/ RunTests

Spec == Init /\ [][Next]_vars

---------------------------------------------------------------------------
(* Vocabulary of the properties                                            *)

Cells == Coords \X Coords
pieceAt(p) == board[p[1]][p[2]]
Range(seq) == {seq[i] : i \in 1 .. Len(seq)}
Landings(caps) == {<<t[1], t[2]>> : t \in Range(caps)}
IsDark(p) == (p[1] + p[2]) % 2 = 1
InBounds(p) == p[1] \in Coords /\ p[2] \in Coords
Pieces == [color : Colors, king : BOOLEAN]

\* What a click on (r, c) leaves, as the handler computes it from here.
ClickResult(r, c) == onSquareClick(Entering(St), r, c)

\* n leaves the game as it is: board, selection, turn, chain and score.
Rejected(n) ==
  /\ n.board = board
  /\ n.selected = selected
  /\ n.turn = turn
  /\ n.chainFrom = chainFrom
  /\ n.score = score

StPrimed ==
  [board |-> board', selected |-> selected', turn |-> turn',
   advanced |-> advanced', chainFrom |-> chainFrom', score |-> score',
   aria |-> aria', logged |-> logged']

LastMove == hist.turnMoves[Len(hist.turnMoves)]
LastMovePrimed == hist'.turnMoves[Len(hist'.turnMoves)]

\* This step is an accepted move; an accepted capture.
MoveStep == nMoves' = nMoves + 1
CaptureStep == MoveStep /\ score' # score

\* This step is the work of the New Game button; of a click on a square.
ResetStep == logged' = <<MsgNewGame>>
ClickStep == logged' \notin {<<MsgMode>>, <<MsgNewGame>>, <<MsgNewGame, MsgTests>>}

---------------------------------------------------------------------------
\* C1: in every reachable state the board is 8 x 8, each cell holds no piece
\* or one piece (a color and a king flag), and every piece is on a dark cell.
C1_PiecesOnDarkCells ==
  /\ DOMAIN board = Coords
  /\ \A r \in Coords : DOMAIN board[r] = Coords
  /\ \A p \in Cells :
       /\ pieceAt(p) \in Pieces \cup {NoPiece}
       /\ pieceAt(p) # NoPiece => IsDark(p)

\* A move has been made: its origin is empty and its destination holds the piece.
C1_Witness ==
  /\ nMoves > 0
  /\ pieceAt(LastMove.from) = NoPiece
  /\ pieceAt(LastMove.to) \in Pieces

\* C2: in advanced mode, when anyCaptureAvailable(turn), computeTargets gives
\* every piece of the turn color empty steps; empty caps too if the piece
\* has no capture, non-empty caps if it has one.
C2_ForcedCapture ==
  (advanced /\ anyCaptureAvailable(St, turn)) =>
    \A p \in Cells :
      (pieceAt(p) # NoPiece /\ pieceAt(p).color = turn) =>
        LET t == computeTargetsForSelection(St, p[1], p[2])
            own == captureMoves(St, p[1], p[2])
        IN /\ t.steps = <<>>
           /\ own = <<>> => t.caps = <<>>
           /\ own # <<>> => t.caps # <<>>

\* In advanced mode a capture is available, and the selected piece, which
\* could step, has no capture of its own.
C2_Witness ==
  /\ advanced
  /\ anyCaptureAvailable(St, turn)
  /\ selected # Null
  /\ legalSteps(St, selected[1], selected[2]) # <<>>
  /\ captureMoves(St, selected[1], selected[2]) = <<>>

\* C3, first and last part: after an accepted capture landing at L, if the
\* mode is advanced and captureMoves(L) is non-empty the turn does not pass
\* and chainFrom = selected = L; otherwise the turn passes and both are null.
C3_AfterCapture ==
  CaptureStep =>
    LET L == LastMovePrimed.to IN
    IF advanced /\ captureMoves(StPrimed, L[1], L[2]) # <<>>
    THEN turn' = turn /\ chainFrom' = L /\ selected' = L
    ELSE turn' # turn /\ chainFrom' = Null /\ selected' = Null

\* This step is a further capture by the piece of the chain.
C3_CapturesAgain == CaptureStep /\ LastMovePrimed.from = chainFrom

\* C3 as claimed: ... and chainFrom and selected stay L until that piece
\* captures again, whatever happens.
C3_Original ==
  [][/\ C3_AfterCapture
     /\ (chainFrom # Null /\ selected = chainFrom /\ ~C3_CapturesAgain)
          => (chainFrom' = chainFrom /\ selected' = selected)]_vars

\* C3 as amended: ... and chainFrom and selected stay L across every click
\* on a square until that piece captures again.
C3_ChainHolds ==
  [][/\ C3_AfterCapture
     /\ (chainFrom # Null /\ selected = chainFrom /\ ClickStep /\ ~C3_CapturesAgain)
          => (chainFrom' = chainFrom /\ selected' = selected)]_vars

\* In a chain, a click on another piece of the moving color was refused.
C3_Witness ==
  /\ chainFrom # Null
  /\ selected = chainFrom
  /\ ~hist.turnDone
  /\ LastMove.kind = "capture"
  /\ LastMove.to = chainFrom
  /\ logged = <<MsgMustContinue>>

\* C4: in advanced mode, a click on an empty cell that is a one-step target
\* of the selected piece while a capture is mandatory leaves the game as it
\* is and surfaces the forced-capture message.
C4_ForcedCaptureMessage ==
  \A p \in Cells :
    (/\ advanced
     /\ selected # Null
     /\ pieceAt(p) = NoPiece
     /\ p \in Range(legalSteps(St, selected[1], selected[2]))
     /\ (chainFrom # Null \/ anyCaptureAvailable(St, turn)))
    => LET n == ClickResult(p[1], p[2])
       IN Rejected(n) /\ n.aria = MsgForced /\ n.logged = <<MsgForced>>

\* C5: a click on a piece of the color not to move, or, in a chain, on a
\* piece of the moving color other than the chain piece, leaves the game as
\* it is and surfaces a message.
C5_IllegalSelectionMessage ==
  \A p \in Cells :
    (/\ pieceAt(p) # NoPiece
     /\ \/ pieceAt(p).color # turn
        \/ chainFrom # Null /\ chainFrom # p)
    => LET n == ClickResult(p[1], p[2])
       IN Rejected(n) /\ n.logged # <<>>

\* C6: with a piece selected, a click on an empty cell that is in neither
\* the steps nor the caps computed for the selection leaves the game as it
\* is and surfaces 'Illegal move.'.
C6_IllegalMoveRejected ==
  \A p \in Cells :
    (/\ selected # Null
     /\ pieceAt(p) = NoPiece
     /\ LET t == computeTargetsForSelection(St, selected[1], selected[2])
        IN p \notin Range(t.steps) /\ p \notin Landings(t.caps))
    => LET n == ClickResult(p[1], p[2])
       IN Rejected(n) /\ n.aria = MsgIllegal /\ n.logged = <<MsgIllegal>>

\* A click on an empty cell that is no target was just refused.
C6_Witness ==
  /\ selected # Null
  /\ pieceAt(selected) # NoPiece
  /\ aria = MsgIllegal
  /\ logged = <<MsgIllegal>>

\* The far row of a color.
FarRow(color, r) == (color = RED /\ r = 0) \/ (color = BLACK /\ r = SIZE - 1)

\* C7: an accepted move turns the moved piece's king flag from false to
\* true exactly when the mode is advanced and it lands on its far row (so
\* never in simple mode); maybeKinging leaves a king unchanged; and no step
\* but New Game turns a king into a non-king: a king stays where it is, or is
\* the piece moved and is put down a king, or is captured.
C7_Kinging ==
  [][/\ \A color \in Colors, r \in Coords :
          maybeKinging(St, r, [color |-> color, king |-> TRUE])
            = [color |-> color, king |-> TRUE]
     /\ MoveStep =>
          LET from == LastMovePrimed.from
              to == LastMovePrimed.to
              was == board[from[1]][from[2]]
              now == board'[to[1]][to[2]]
          IN /\ was \in Pieces /\ now \in Pieces
             /\ now.color = was.color
             /\ was.king => now.king
             /\ ~was.king => (now.king <=> (advanced /\ FarRow(was.color, to[1])))
     /\ ~ResetStep =>
          \A p \in Cells :
            (board[p[1]][p[2]] # NoPiece /\ board[p[1]][p[2]].king) =>
              \/ board'[p[1]][p[2]] = board[p[1]][p[2]]
              \/ board'[p[1]][p[2]] = NoPiece /\ MoveStep
                 /\ (p = LastMovePrimed.from =>
                       board'[LastMovePrimed.to[1]][LastMovePrimed.to[2]].king)]_vars

\* A piece that was no king has just been put down on its far row a king.
C7_Witness ==
  /\ nMoves > 0
  /\ ~LastMove.piece.king
  /\ LastMove.placed.king
  /\ pieceAt(LastMove.to) = LastMove.placed
  /\ FarRow(LastMove.placed.color, LastMove.to[1])

\* C8: every target of legalSteps and captureMoves, for every piece, is in
\* bounds and dark; for a non-king Red piece its row is less than the
\* origin's, for a non-king Black piece greater.
C8_Targets ==
  \A p \in Cells :
    pieceAt(p) # NoPiece =>
      LET targets == Range(legalSteps(St, p[1], p[2]))
                       \cup Landings(captureMoves(St, p[1], p[2]))
      IN \A t \in targets :
           /\ InBounds(t) /\ IsDark(t)
           /\ (~pieceAt(p).king /\ pieceAt(p).color = RED) => t[1] < p[1]
           /\ (~pieceAt(p).king /\ pieceAt(p).color = BLACK) => t[1] > p[1]

\* A king has targets in both row directions while a non-king piece has a
\* target too.
C8_Witness ==
  /\ \E p \in Cells :
       /\ pieceAt(p) # NoPiece /\ pieceAt(p).king
       /\ \E t, u \in Range(legalSteps(St, p[1], p[2]))
                        \cup Landings(captureMoves(St, p[1], p[2])) :
            t[1] < p[1] /\ u[1] > p[1]
  /\ \E q \in Cells :
       /\ pieceAt(q) # NoPiece /\ ~pieceAt(q).king
       /\ legalSteps(St, q[1], q[2]) # <<>>

\* The standard initial placement.
Standard(b) ==
  \A p \in Cells :
    b[p[1]][p[2]] =
      IF IsDark(p) /\ p[1] \in 0 .. 2 THEN [color |-> BLACK, king |-> FALSE]
      ELSE IF IsDark(p) /\ p[1] \in 5 .. 7 THEN [color |-> RED, king |-> FALSE]
      ELSE NoPiece

\* C9: from every reachable state resetGame yields the standard placement,
\* 12 Red and 12 Black, Red to move, nothing selected, no chain, scores 0.
C9_ResetStandard ==
  LET n == resetGame(Entering(St))
  IN /\ Standard(n.board)
     /\ countPieces(n, RED) = 12
     /\ countPieces(n, BLACK) = 12
     /\ n.turn = RED
     /\ n.selected = Null
     /\ n.chainFrom = Null
     /\ n.score = [red |-> 0, black |-> 0]

\* New Game was just clicked, in advanced mode, which only a game in
\* progress or a toggled page can be in.
C9_Witness ==
  /\ logged = <<MsgNewGame>>
  /\ advanced
  /\ Standard(board)
  /\ turn = RED /\ selected = Null /\ chainFrom = Null

\* The moves of a turn are one step that ends it, or captures each starting
\* where the one before landed.
WellFormedTurn(h) ==
  LET m == h.turnMoves IN
  \/ m = <<>>
  \/ Len(m) = 1 /\ m[1].kind = "step" /\ h.turnDone
  \/ \A i \in 1 .. Len(m) :
       m[i].kind = "capture" /\ (i > 1 => m[i].from = m[i - 1].to)

\* C10 as claimed: within one turn the moving color makes one step, or one
\* or more captures all by the same piece, whatever is clicked.
C10_Original == WellFormedTurn(hist)

\* C10 as amended: ... unless the mode button was clicked during a chain of
\* that turn.
C10_TurnShape == ~hist.chainCut => WellFormedTurn(hist)

\* A turn of two captures by one piece.
C10_Witness ==
  /\ ~hist.chainCut
  /\ Len(hist.turnMoves) >= 2
  /\ \A i \in 1 .. Len(hist.turnMoves) : hist.turnMoves[i].kind = "capture"
  /\ hist.turnMoves[2].from = hist.turnMoves[1].to

---------------------------------------------------------------------------
\* What a click on the mode button leaves, as the handler computes it from here.
ToggleResult == toggleCaptures(Entering(St))

\* C11: in every state the mode toggle flips advanced and sets chainFrom to
\* null, and leaves the board, the turn and both scores unchanged.
C11_ToggleEffect ==
  /\ ToggleResult.advanced = ~advanced
  /\ ToggleResult.chainFrom = Null
  /\ ToggleResult.board = board
  /\ ToggleResult.turn = turn
  /\ ToggleResult.score = score

\* The mode button was just clicked in the middle of a chain: the mode is
\* simple now, the chain is gone, the capturing color is still to move and
\* its capture is on the score.
C11_Witness ==
  /\ logged = <<MsgMode>>
  /\ ~advanced
  /\ chainFrom = Null
  /\ hist.chainCut /\ ~hist.turnDone
  /\ LastMove.kind = "capture"
  /\ pieceAt(LastMove.to).color = turn
  /\ score.red + score.black > 0

\* The reports of a win among the entries the step's handler logged.
WinsReported == Range(logged') \cap {MsgRedWins, MsgBlackWins}
WinText(color) == IF color = RED THEN MsgRedWins ELSE MsgBlackWins
Opposite(color) == IF color = RED THEN BLACK ELSE RED

\* C12: a step reports game over exactly when it is an accepted capture that
\* leaves one color with no piece; the winner reported is the color that
\* just captured, which still has pieces; nothing is reported by a step that
\* leaves both colors a piece.
C12_GameOverReport ==
  [][/\ WinsReported # {} <=>
          (CaptureStep /\ \E color \in Colors : countPieces(StPrimed, color) = 0)
     /\ WinsReported # {} =>
          /\ WinsReported = {WinText(turn)}
          /\ countPieces(StPrimed, turn) > 0
          /\ countPieces(StPrimed, Opposite(turn)) = 0
     /\ (\A color \in Colors : countPieces(StPrimed, color) > 0)
          => WinsReported = {}]_vars

\* The capture of Red's last piece was just made and Black's win logged
\* after it.
C12_Witness ==
  /\ nMoves > 0
  /\ LastMove.kind = "capture"
  /\ countPieces(St, RED) = 0
  /\ countPieces(St, BLACK) > 0
  /\ logged = <<MsgCaptured, MsgBlackWins>>

\* From `from`, in the row direction dr, a piece of `color` has a capture on
\* board b: an opposing piece on the adjacent diagonal cell and an empty
\* cell behind it.
JumpOn(b, color, from, dr) ==
  \E dc \in {-1, 1} :
    LET mid == <<from[1] + dr, from[2] + dc>>
        to == <<from[1] + 2 * dr, from[2] + 2 * dc>>
    IN /\ InBounds(mid) /\ InBounds(to)
       /\ b[mid[1]][mid[2]] # NoPiece
       /\ b[mid[1]][mid[2]].color # color
       /\ b[to[1]][to[2]] = NoPiece

\* The row direction a non-king piece of the color cannot move in.
Backward(color) == IF color = RED THEN 1 ELSE -1

\* C13: in advanced mode a capture that lands a non-king piece on its far
\* row puts it down a king in that same step, and if a capture in the
\* backward direction is available from the landing cell, the turn does not
\* pass and the chain is on that piece.
C13_CrownedInChain ==
  [][(/\ CaptureStep
      /\ advanced
      /\ ~LastMovePrimed.piece.king
      /\ FarRow(LastMovePrimed.piece.color, LastMovePrimed.to[1]))
     => LET L == LastMovePrimed.to
            color == LastMovePrimed.piece.color
        IN /\ board'[L[1]][L[2]] = [color |-> color, king |-> TRUE]
           /\ JumpOn(board', color, L, Backward(color)) =>
                /\ turn' = turn
                /\ chainFrom' = L
                /\ selected' = L
                /\ captureMoves(StPrimed, L[1], L[2]) # <<>>]_vars

\* A Black piece that was no king has just captured onto row 7, is a king
\* there, and is in a chain with a capture back up the board.
C13_Witness ==
  /\ advanced
  /\ nMoves > 0
  /\ LastMove.kind = "capture"
  /\ ~LastMove.piece.king
  /\ FarRow(LastMove.piece.color, LastMove.to[1])
  /\ pieceAt(LastMove.to).king
  /\ chainFrom = LastMove.to
  /\ turn = LastMove.piece.color
  /\ JumpOn(board, turn, chainFrom, Backward(turn))

---------------------------------------------------------------------------
(* Calls with coordinates that may lie outside the board.  The functions   *)
(* of the source read state.board[r][c] before any test of r and c:        *)
(* state.board[r] is undefined for a row outside 0..7 and indexing it      *)
(* throws a TypeError; a column outside 0..7 of an existing row reads      *)
(* undefined.                                                              *)

MsgRuntimeError == "Runtime Error"

boardAccess(s, r, c) ==
  IF r \notin DOMAIN s.board THEN "TypeError"
  ELSE IF c \notin DOMAIN s.board[r] THEN "undefined"
  ELSE "cell"

\* legalSteps(r, c): `sq?.piece` of an undefined sq is undefined, so [] is
\* returned.
legalStepsCall(s, r, c) ==
  IF boardAccess(s, r, c) = "TypeError" THEN [threw |-> TRUE, value |-> <<>>]
  ELSE IF boardAccess(s, r, c) = "undefined" THEN [threw |-> FALSE, value |-> <<>>]
  ELSE [threw |-> FALSE, value |-> legalSteps(s, r, c)]

captureMovesCall(s, r, c) ==
  IF boardAccess(s, r, c) = "TypeError" THEN [threw |-> TRUE, value |-> <<>>]
  ELSE IF boardAccess(s, r, c) = "undefined" THEN [threw |-> FALSE, value |-> <<>>]
  ELSE [threw |-> FALSE, value |-> captureMoves(s, r, c)]

\* onSquareClick on a square whose dataset holds (r, c): `cell.piece` of an
\* undefined cell throws too; the window's error listener puts the error in
\* the log.
onSquareClickCall(s, r, c) ==
  IF boardAccess(s, r, c) = "cell"
  THEN [threw |-> FALSE, state |-> onSquareClick(s, r, c)]
  ELSE [threw |-> TRUE, state |-> log(s, MsgRuntimeError)]

\* Coordinates on the board and just outside it.
Probe == Coords \cup {-1, SIZE}

\* C14: a click, and a call of legalSteps or captureMoves, with a row or a
\* column outside 0..7 does not fault: the click leaves the state as it is
\* and the calls return no target.
C14_OutOfRangeRejected ==
  \A r \in Probe, c \in Probe :
    ~within(r, c) =>
      /\ ~onSquareClickCall(Entering(St), r, c).threw
      /\ Rejected(onSquareClickCall(Entering(St), r, c).state)
      /\ legalStepsCall(St, r, c) = [threw |-> FALSE, value |-> <<>>]
      /\ captureMovesCall(St, r, c) = [threw |-> FALSE, value |-> <<>>]

---------------------------------------------------------------------------
\* This step is an accepted move that is no capture.
StepStep == MoveStep /\ score' = score

Abs(x) == IF x < 0 THEN -x ELSE x

\* Every cell but those of `cells` holds after the step what it held before.
OthersUnchanged(cells) ==
  \A p \in Cells \ cells : board'[p[1]][p[2]] = board[p[1]][p[2]]

\* C15: an accepted step takes the selected piece to an empty diagonally
\* adjacent cell, empties its origin, removes no piece, leaves every other
\* cell and both scores as they are, and ends the turn: the turn passes to
\* the opposite color and selected and chainFrom are null.
C15_StepEffect ==
  [][StepStep =>
       LET from == LastMovePrimed.from
           to == LastMovePrimed.to
       IN /\ from = selected
          /\ pieceAt(from) \in Pieces
          /\ pieceAt(to) = NoPiece
          /\ Abs(to[1] - from[1]) = 1 /\ Abs(to[2] - from[2]) = 1
          /\ board'[from[1]][from[2]] = NoPiece
          /\ board'[to[1]][to[2]] \in Pieces
          /\ board'[to[1]][to[2]].color = pieceAt(from).color
          /\ OthersUnchanged({from, to})
          /\ \A color \in Colors :
               countPieces(StPrimed, color) = countPieces(St, color)
          /\ score' = score
          /\ turn' = Opposite(turn)
          /\ selected' = Null
          /\ chainFrom' = Null]_vars

\* A step was just made: the piece is on its destination, the origin is
\* empty and the other color is to move with nothing selected.
C15_Witness ==
  /\ nMoves > 0
  /\ LastMove.kind = "step"
  /\ pieceAt(LastMove.from) = NoPiece
  /\ pieceAt(LastMove.to) \in Pieces
  /\ turn = Opposite(pieceAt(LastMove.to).color)
  /\ selected = Null /\ chainFrom = Null
  /\ logged = <<MsgMoved>>

\* C16: an accepted capture takes the selected piece two diagonal cells to
\* an empty landing cell, empties its origin, removes exactly the piece on
\* the midpoint, which is of the opposite color, adds exactly 1 to the
\* capturing color's score, and leaves every other cell and the other
\* color's score as they are.
C16_CaptureEffect ==
  [][CaptureStep =>
       LET from == LastMovePrimed.from
           to == LastMovePrimed.to
           mid == <<(from[1] + to[1]) \div 2, (from[2] + to[2]) \div 2>>
       IN /\ from = selected
          /\ pieceAt(from) \in Pieces
          /\ pieceAt(from).color = turn
          /\ pieceAt(to) = NoPiece
          /\ Abs(to[1] - from[1]) = 2 /\ Abs(to[2] - from[2]) = 2
          /\ board'[from[1]][from[2]] = NoPiece
          /\ board'[to[1]][to[2]] \in Pieces
          /\ board'[to[1]][to[2]].color = turn
          /\ pieceAt(mid) \in Pieces
          /\ pieceAt(mid).color = Opposite(turn)
          /\ board'[mid[1]][mid[2]] = NoPiece
          /\ OthersUnchanged({from, to, mid})
          /\ countPieces(StPrimed, Opposite(turn))
               = countPieces(St, Opposite(turn)) - 1
          /\ countPieces(StPrimed, turn) = countPieces(St, turn)
          /\ score'[turn] = score[turn] + 1
          /\ score'[Opposite(turn)] = score[Opposite(turn)]]_vars

\* A capture was just made in simple mode: origin and midpoint are empty,
\* the piece stands two cells away and the turn has passed.
C16_Witness ==
  /\ nMoves > 0
  /\ ~advanced
  /\ LastMove.kind = "capture"
  /\ pieceAt(LastMove.from) = NoPiece
  /\ pieceAt(<<(LastMove.from[1] + LastMove.to[1]) \div 2,
               (LastMove.from[2] + LastMove.to[2]) \div 2>>) = NoPiece
  /\ pieceAt(LastMove.to) = LastMove.placed
  /\ hist.turnDone
  /\ logged = <<MsgCaptured>>

---------------------------------------------------------------------------
\* The GameState of s: board, selection, turn, mode, chain origin, scores.
GameState(s) ==
  [board |-> s.board, selected |-> s.selected, turn |-> s.turn,
   advanced |-> s.advanced, chainFrom |-> s.chainFrom, score |-> s.score]

\* C17: the GameState after resetGame is the same whatever the state was
\* before: it is the one resetGame leaves on the page just loaded.
C17_ResetReplacesAll ==
  GameState(resetGame(Entering(St))) = GameState(resetGame(Entering(Loaded)))

---------------------------------------------------------------------------
\* The pieces each color starts a game with.
StartCount == countPieces(Loaded, RED)

\* C18: in every reachable state score.red + countPieces(BLACK) = 12 and
\* score.black + countPieces(RED) = 12.
C18_ScoreCountsCaptures ==
  /\ StartCount = 12
  /\ countPieces(Loaded, BLACK) = 12
  /\ score.red + countPieces(St, BLACK) = 12
  /\ score.black + countPieces(St, RED) = 12

\* Both colors have captured, and Black has just captured once more.
C18_Witness ==
  /\ nMoves > 0
  /\ LastMove.kind = "capture"
  /\ LastMove.piece.color = BLACK
  /\ score.red > 0
  /\ score.black > 1
  /\ countPieces(St, RED) < 12
  /\ countPieces(St, BLACK) < 12

---------------------------------------------------------------------------
\* C19: in every state between two events, if selected is non-null the
\* selected cell holds a piece of the color to move; and if chainFrom is
\* non-null the mode is advanced, selected equals chainFrom and
\* captureMoves(chainFrom) is non-empty.
C19_SelectionAndChain ==
  /\ selected # Null =>
       /\ pieceAt(selected) # NoPiece
       /\ pieceAt(selected).color = turn
  /\ chainFrom # Null =>
       /\ advanced
       /\ selected = chainFrom
       /\ captureMoves(St, chainFrom[1], chainFrom[2]) # <<>>

---------------------------------------------------------------------------
\* C20: once a color has no piece, the turn is that color's and nothing is
\* selected, and no step but New Game changes the board, the turn, the
\* selection or the scores; New Game gives both colors their pieces again.
C20_FrozenAfterWin ==
  [][\A color \in Colors :
       countPieces(St, color) = 0 =>
         /\ turn = color
         /\ selected = Null
         /\ ~ResetStep =>
              /\ board' = board
              /\ turn' = turn
              /\ selected' = selected
              /\ score' = score
         /\ ResetStep => countPieces(StPrimed, color) > 0]_vars

\* Red has no piece left; since the last capture, made in advanced mode,
\* the mode button and then a square have been clicked, and it is still
\* Red's turn with nothing selected.
C20_Witness ==
  /\ countPieces(St, RED) = 0
  /\ countPieces(St, BLACK) > 0
  /\ score.black = StartCount
  /\ turn = RED
  /\ selected = Null
  /\ ~advanced
  /\ logged = <<>>

=============================================================================
